---- MODULE Spec2Model ----
(***************************************************************************)
(* A model of the repository cache and fetch subsystem of skilo:           *)
(*   src/src/cache.rs      path resolution, names, statistics, eviction    *)
(*   src/src/git/fetch.rs  clone into a temporary directory                *)
(* and of the diagnostics routing of the manifest linter:                  *)
(*   src/src/skill/validator.rs  rule registration and validate            *)
(***************************************************************************)
EXTENDS Integers, Sequences, FiniteSets, TLC

VARIABLES
    env,        \* process environment: SKILO_CACHE, SKILO_HOME, home directory
    db,         \* <git_dir>/db: whether it exists and can be listed, name -> entry
    checkouts,  \* <git_dir>/checkouts: the same, for the checkouts
    ret,        \* what the last cache operation returned
    src,        \* the GitSource given to fetch
    pc,         \* where fetch is: "start", "clone", "done", "dropped"
    temp,       \* the temporary clone directory: "none", "held", "owned", "deleted", "left"
    opts,       \* what clone_repo configured: depth, branch
    attempts,   \* clone attempts made against the remote
    clone,      \* how the clone ended: outcome, error code and message, cloned tree
    result,     \* what fetch returned
    cred,       \* the last credential request and its outcome
    purl,       \* the URL given to parse_owner_repo, and how it was written
    parsed,     \* what parse_owner_repo returned
    nreq,       \* the owner, repo and revision an entry name is asked for
    nout,       \* what db_name or checkout_name returned
    bytes,      \* the byte count given to format_size
    text,       \* what format_size returned
    lint,       \* the lint configuration and what each rule finds in the manifest
    validation  \* what Validator::validate returned, and what was merged into it

cacheVars == <<env, db, checkouts, ret>>
fetchVars == <<src, pc, temp, opts, attempts, clone, result>>
credVars == <<cred>>
parseVars == <<purl, parsed>>
nameVars == <<nreq, nout>>
sizeVars == <<bytes, text>>
validVars == <<lint, validation>>
vars == <<cacheVars, fetchVars, credVars, parseVars, nameVars, sizeVars, validVars>>

\* What the operations of one component leave alone.
notCache == <<fetchVars, credVars, parseVars, nameVars, sizeVars, validVars>>
notFetch == <<cacheVars, credVars, parseVars, nameVars, sizeVars, validVars>>
notCred == <<cacheVars, fetchVars, parseVars, nameVars, sizeVars, validVars>>
notParse == <<cacheVars, fetchVars, credVars, nameVars, sizeVars, validVars>>
notName == <<cacheVars, fetchVars, credVars, parseVars, sizeVars, validVars>>
notSize == <<cacheVars, fetchVars, credVars, parseVars, nameVars, validVars>>
notValid == <<cacheVars, fetchVars, credVars, parseVars, nameVars, sizeVars>>

(***************************************************************************)
(* Bounds                                                                  *)
(***************************************************************************)
MaxCheckouts == 2   \* names a checkout entry can take
MaxMirrors == 1     \* names a mirror entry can take
MaxSize == 1        \* largest recursive size of an entry, in bytes
MaxDay == 1         \* times and max_age_days range over 0..MaxDay days
MaxSubdirLen == 2   \* components in a requested subdir
MaxMsgLen == 1      \* phrases in an error message
MaxIdLen == 2       \* characters in an owner or repository name
MaxRawLen == 5      \* characters in a URL of no particular shape
MaxRevLen == 8      \* characters in a revision
MaxEighths == 14    \* byte counts range up to this many eighths of a unit
MaxChanged == 1     \* lint settings that differ from the default
MaxFindings == 2    \* diagnostics the rules find in one manifest
MaxMerges == 1      \* results merged into one

CheckoutNames == 1..MaxCheckouts
MirrorNames == 1..MaxMirrors

\* The names under which a collaborator leaves an entry whose removal fails:
\* one checkout and one mirror.
Stuck == {1}
\* Whether fs::remove_dir_all can succeed on a new entry of that name.
Removable(n) == IF n \in Stuck THEN BOOLEAN ELSE {TRUE}
Sizes == 0..MaxSize
Days == 0..MaxDay

\* Option<PathBuf>: a path is a sequence of components.
None == [some |-> FALSE, path |-> <<>>]
Some(p) == [some |-> TRUE, path |-> p]

Absent == [kind |-> "absent", size |-> 0, mtime |-> 0, removable |-> TRUE]

SecsPerDay == 24 * 60 * 60

\* Modification times, in seconds: the day boundaries.
MTimes == {d * SecsPerDay : d \in Days}

\* Readings of SystemTime::now(): each day boundary and one second past it.
ClockTimes == {d * SecsPerDay + s : d \in Days, s \in 0..1}

(***************************************************************************)
(* PathResolver                                                            *)
(***************************************************************************)
join(p, seg) == Some(p.path \o <<seg>>)

skilo_home(e) ==
    IF e.SKILO_HOME.some THEN e.SKILO_HOME
    ELSE IF e.home.some THEN join(e.home, ".skilo")
    ELSE None

\* Variant: the home override consulted before the cache override.
git_dirHomeFirst(e) ==
    IF skilo_home(e).some THEN join(skilo_home(e), "git")
    ELSE IF e.SKILO_CACHE.some THEN e.SKILO_CACHE
    ELSE None

git_dir(e) ==
    IF e.SKILO_CACHE.some THEN e.SKILO_CACHE
    ELSE IF skilo_home(e).some THEN join(skilo_home(e), "git")
    ELSE None

db_dir(e) == IF git_dir(e).some THEN join(git_dir(e), "db") ELSE None

checkouts_dir(e) == IF git_dir(e).some THEN join(git_dir(e), "checkouts") ELSE None

\* Environments of the cache operations: nothing set and no home directory,
\* or the direct cache override.
CacheEnvs ==
    { [SKILO_CACHE |-> c, SKILO_HOME |-> None, home |-> None] : c \in {None, Some(<<"cache">>)} }

(***************************************************************************)
(* Cache entries                                                           *)
(***************************************************************************)
DirEntry(size, mtime, removable) ==
    [kind |-> "dir", size |-> size, mtime |-> mtime, removable |-> removable]

FileEntry == [kind |-> "file", size |-> 1, mtime |-> 0, removable |-> TRUE]

\* A directory of the cache that does not exist, and one that exists and is
\* empty.  `listable` tells whether fs::read_dir succeeds on it: a directory
\* made under a umask that takes the owner's read bit away exists and takes
\* new entries, and cannot be enumerated.
NoDir(names) == [exists |-> FALSE, listable |-> FALSE, ents |-> [n \in names |-> Absent]]
EmptyDir(names, listable) ==
    [exists |-> TRUE, listable |-> listable, ents |-> [n \in names |-> Absent]]

Exists(d) == d.exists

\* `if let Ok(entries) = fs::read_dir(d)`: the entries the loop is given,
\* files included, none when the directory is absent or read_dir fails.
TopLevel(d) ==
    IF Exists(d) /\ d.listable THEN {n \in DOMAIN d.ents : d.ents[n] # Absent} ELSE {}

\* The entries with path.is_dir(): the immediate subdirectories the loop sees.
SubDirs(d) == {n \in TopLevel(d) : d.ents[n].kind = "dir"}

\* dir_size: the recursive size of one entry.
dir_size(d, n) == d.ents[n].size

RECURSIVE SumSizes(_, _)
SumSizes(d, S) ==
    IF S = {} THEN 0
    ELSE LET n == CHOOSE x \in S : TRUE
         IN dir_size(d, n) + SumSizes(d, S \ {n})

\* fs::remove_dir_all(path).is_ok()
RemoveOk(d, n) == d.ents[n].removable

\* What a failed fs::remove_dir_all can leave of an entry: remove_dir_all
\* deletes depth first and stops at the first error, so the entry has kept any
\* part of its content; it was last modified at the time of the call when
\* something directly inside it was deleted, and when it was before the call
\* when nothing was, or only content further down.
Remains(e, now) ==
    {[e EXCEPT !.size = s, !.mtime = m] : s \in 0..e.size, m \in {e.mtime, now}}

\* The outcomes of the failed removals of the entries in F.
Leftovers(d, F, now) ==
    {left \in [F -> UNION {Remains(d.ents[n], now) : n \in F}] :
        \A n \in F : left[n] \in Remains(d.ents[n], now)}

\* The directory after the entries in S are removed and the entries whose
\* removal failed are left as `left` tells.
Without(d, S, left) ==
    [d EXCEPT !.ents = [n \in DOMAIN d.ents |->
                          IF n \in S THEN Absent
                          ELSE IF n \in DOMAIN left THEN left[n]
                          ELSE d.ents[n]]]

(***************************************************************************)
(* Evictor: clean_old_checkouts                                            *)
(***************************************************************************)
MaxAge(days) == days * SecsPerDay

\* Variant: the age test with >= in place of >.
IsOldGe(d, n, now, days) ==
    /\ d.ents[n].mtime <= now
    /\ now - d.ents[n].mtime >= MaxAge(days)

\* now.duration_since(modified) is Ok only when modified <= now; age > max_age.
IsOld(d, n, now, days) ==
    /\ d.ents[n].mtime <= now
    /\ now - d.ents[n].mtime > MaxAge(days)

\* Variant: an entry is counted whether or not its removal succeeded.
OldRemovedCountingFailures(d, now, days) ==
    {n \in SubDirs(d) : IsOld(d, n, now, days)}

\* The entries one pass removes: remove_dir_all is attempted on each aged
\* subdirectory, and the entry counts when the removal succeeds.
OldRemoved(d, now, days) ==
    {n \in SubDirs(d) : IsOld(d, n, now, days) /\ RemoveOk(d, n)}

\* The aged subdirectories whose removal one pass attempts and fails.
OldFailed(d, now, days) ==
    {n \in SubDirs(d) : IsOld(d, n, now, days) /\ ~RemoveOk(d, n)}

\* clean_old_checkouts(max_age_days), with `now` what SystemTime::now() reads.
CleanOld(days, now) ==
    /\ ret' = IF ~checkouts_dir(env).some \/ ~Exists(checkouts)
              THEN [op |-> "clean_old", ok |-> TRUE, days |-> days, now |-> now,
                    before |-> checkouts, removed |-> 0, freed |-> 0]
              ELSE LET R == OldRemoved(checkouts, now, days)
                   IN [op |-> "clean_old", ok |-> TRUE, days |-> days, now |-> now,
                       before |-> checkouts, removed |-> Cardinality(R),
                       freed |-> SumSizes(checkouts, R)]
    /\ \E left \in Leftovers(checkouts, OldFailed(checkouts, now, days), now) :
          checkouts' = IF ~checkouts_dir(env).some \/ ~Exists(checkouts)
                       THEN checkouts
                       ELSE Without(checkouts, OldRemoved(checkouts, now, days), left)
    /\ UNCHANGED <<env, db, notCache>>

(***************************************************************************)
(* Evictor: clean_all                                                      *)
(***************************************************************************)
\* Variant: the pass without the path.is_dir() test.
AllRemovedNoDirCheck(d) == {n \in TopLevel(d) : RemoveOk(d, n)}

\* One pass of clean_all over a directory: the entries with path.is_dir()
\* whose remove_dir_all succeeds.
AllRemoved(d) == {n \in SubDirs(d) : RemoveOk(d, n)}

\* The subdirectories whose removal one pass of clean_all attempts and fails.
AllFailed(d) == {n \in SubDirs(d) : ~RemoveOk(d, n)}

\* clean_all(): checkouts first, then db; `now` is the time of the call.
CleanAll(now) ==
    LET coSeen == checkouts_dir(env).some /\ Exists(checkouts)
        dbSeen == db_dir(env).some /\ Exists(db)
        Rco == IF coSeen THEN AllRemoved(checkouts) ELSE {}
        Rdb == IF dbSeen THEN AllRemoved(db) ELSE {}
        Fco == IF coSeen THEN AllFailed(checkouts) ELSE {}
        Fdb == IF dbSeen THEN AllFailed(db) ELSE {}
    IN /\ ret' = [op |-> "clean_all", ok |-> TRUE,
                  before_db |-> db, before_checkouts |-> checkouts,
                  repos_removed |-> Cardinality(Rdb),
                  checkouts_removed |-> Cardinality(Rco),
                  freed |-> SumSizes(checkouts, Rco) + SumSizes(db, Rdb)]
       /\ \E left \in Leftovers(checkouts, Fco, now) :
             checkouts' = Without(checkouts, Rco, left)
       /\ \E left \in Leftovers(db, Fdb, now) :
             db' = Without(db, Rdb, left)
       /\ UNCHANGED <<env, notCache>>

(***************************************************************************)
(* CacheStore: CacheStats::collect                                         *)
(***************************************************************************)
\* The orders in which fs::read_dir may yield the entries in S.
Orders(S) ==
    {o \in [1..Cardinality(S) -> S] : \A i, j \in DOMAIN o : i # j => o[i] # o[j]}

\* Insert x into a list sorted by name, after the entries that are not greater.
RECURSIVE Insert(_, _)
Insert(x, list) ==
    IF list = <<>> THEN <<x>>
    ELSE IF x.name < Head(list).name THEN <<x>> \o list
    ELSE <<Head(list)>> \o Insert(x, Tail(list))

\* Variant: the list is returned in read_dir order.
sort_by_nameSkipped(list) == list

\* sort_by(|a, b| a.name.cmp(&b.name)): a stable sort by name, ascending.
RECURSIVE sort_by_name(_)
sort_by_name(list) ==
    IF list = <<>> THEN <<>>
    ELSE Insert(list[Len(list)], sort_by_name(SubSeq(list, 1, Len(list) - 1)))

RECURSIVE SumList(_)
SumList(list) == IF list = <<>> THEN 0 ELSE Head(list).size + SumList(Tail(list))

\* Variant: a missing directory is an error instead of an empty section.
SectionFailsIfMissing(dir, d, order) ==
    IF dir.some /\ Exists(d) /\ d.listable
    THEN LET list == [i \in DOMAIN order |->
                        [name |-> order[i], size |-> dir_size(d, order[i]),
                         modified |-> d.ents[order[i]].mtime]]
         IN [ok |-> TRUE, list |-> list, size |-> SumList(list)]
    ELSE [ok |-> FALSE, list |-> <<>>, size |-> 0]

\* One section of collect(): nothing when the directory is unknown, does not
\* exist or cannot be enumerated (`if let Ok(entries) = fs::read_dir(..)`),
\* else one record per immediate subdirectory, in read_dir order.
Section(dir, d, order) ==
    IF dir.some /\ Exists(d) /\ d.listable
    THEN LET list == [i \in DOMAIN order |->
                        [name |-> order[i], size |-> dir_size(d, order[i]),
                         modified |-> d.ents[order[i]].mtime]]
         IN [ok |-> TRUE, list |-> list, size |-> SumList(list)]
    ELSE [ok |-> TRUE, list |-> <<>>, size |-> 0]

\* Variant: the checkouts are left out of the total.
total_sizeDbOnly(stats) == stats.db_size

\* CacheStats::total_size
total_size(stats) == stats.db_size + stats.checkouts_size

Collect(oDb, oCo) ==
    LET sdb == Section(db_dir(env), db, oDb)
        sco == Section(checkouts_dir(env), checkouts, oCo)
        stats == [repos |-> sort_by_name(sdb.list),
                  checkouts |-> sort_by_name(sco.list),
                  db_size |-> sdb.size, checkouts_size |-> sco.size]
    IN /\ ret' = [op |-> "collect", ok |-> sdb.ok /\ sco.ok, stats |-> stats,
                  total |-> total_size(stats)]
       /\ UNCHANGED <<env, db, checkouts, notCache>>

(***************************************************************************)
(* Fetcher: strings, paths and the filesystem around the temporary dir     *)
(***************************************************************************)
\* Option<String>: <<>> is None, <<x>> is Some(x).
NoneOpt == <<>>
SomeOpt(x) == <<x>>

Urls == {"https://h/o/r.git", "/srv/network/r"}
Branches == {NoneOpt, SomeOpt("main")}
Tags == {NoneOpt, SomeOpt("v1")}

\* Path components a subdir is written with.
Comps == {"..", "skills", "etc"}

RECURSIVE SeqsUpTo(_, _)
SeqsUpTo(S, n) ==
    IF n = 0 THEN {<<>>}
    ELSE LET shorter == SeqsUpTo(S, n - 1)
         IN shorter \cup {Append(q, x) : q \in {r \in shorter : Len(r) = n - 1}, x \in S}

\* A path as written: absolute or relative, and its components.
Subdirs == [abs : BOOLEAN, comps : SeqsUpTo(Comps, MaxSubdirLen)]

Sources ==
    [url : Urls, branch : Branches, tag : Tags,
     subdir : {NoneOpt} \cup {SomeOpt(p) : p \in Subdirs}]

\* TempDir::new(): a fresh directory /tmp/T.
TempPath == [abs |-> TRUE, comps |-> <<"tmp", "T">>]

\* Directories the top level of a cloned tree may hold.
TreeDirs == {"skills", "etc"}

\* The directories that exist, as normalised absolute paths, once `tree` is
\* cloned into the temporary directory.
Filesystem(tree) ==
    {<<>>, <<"tmp">>, <<"etc">>, TempPath.comps}
        \cup {Append(TempPath.comps, d) : d \in tree}

\* PathBuf::join: an absolute argument replaces the base.
path_join(base, p) ==
    IF p.abs THEN p ELSE [abs |-> TRUE, comps |-> base.comps \o p.comps]

\* Where the operating system ends up walking an absolute path: ".." goes to
\* the parent (the root is its own parent) and every directory on the way must
\* exist.
RECURSIVE Walk(_, _, _)
Walk(at, comps, fs) ==
    IF at \notin fs THEN [ok |-> FALSE, at |-> at]
    ELSE IF comps = <<>> THEN [ok |-> TRUE, at |-> at]
    ELSE IF Head(comps) = ".."
         THEN Walk(IF at = <<>> THEN at ELSE SubSeq(at, 1, Len(at) - 1), Tail(comps), fs)
         ELSE Walk(Append(at, Head(comps)), Tail(comps), fs)

\* Variant: the existence test left out.
root_exists_always(root, fs) == TRUE

\* Path::exists
root_exists(root, fs) == Walk(<<>>, root.comps, fs).ok

IsPrefix(a, b) == Len(a) <= Len(b) /\ SubSeq(b, 1, Len(a)) = a

(***************************************************************************)
(* Fetcher: clone_repo                                                     *)
(***************************************************************************)
\* GitSource::reference: branch, else tag, else none.
reference(s) == IF s.branch # NoneOpt THEN s.branch ELSE s.tag

\* Variant: depth 1 whatever the reference.
CloneOptsAlwaysShallow(ref) == [depth |-> 1, branch |-> ref]

\* fetch_opts.depth(1) only without a reference; builder.branch(ref) with one.
\* depth 0 is no depth limit.
CloneOpts(ref) ==
    [depth |-> IF ref = NoneOpt THEN 1 ELSE 0, branch |-> ref]

\* git2 error codes and the phrases an error message is made of.
ErrorCodes == {"NotFound", "GenericError", "Auth"}
Words == {"Could not resolve host", "network", "connection", "failed"}
Messages == SeqsUpTo(Words, MaxMsgLen) \ {<<>>}

\* str::contains, on phrases
contains(message, pat) == \E i \in DOMAIN message : message[i] = pat

NoError == [kind |-> "none", url |-> "", message |-> <<>>, names |-> TempPath, root |-> TempPath]

Error(kind, url, message) == [NoError EXCEPT !.kind = kind, !.url = url, !.message = message]

\* Variant: the status code consulted before the message.
classifyCodeFirst(url, code, message) ==
    IF code = "NotFound" THEN Error("RepoNotFound", url, <<>>)
    ELSE IF \/ contains(message, "Could not resolve host")
            \/ contains(message, "network")
            \/ contains(message, "connection")
    THEN Error("Network", "", message)
    ELSE Error("Git", "", message)

\* The map_err closure of clone_repo.
classify(url, code, message) ==
    IF \/ contains(message, "Could not resolve host")
       \/ contains(message, "network")
       \/ contains(message, "connection")
    THEN Error("Network", "", message)
    ELSE IF code = "NotFound" THEN Error("RepoNotFound", url, <<>>)
    ELSE Error("Git", "", message)

(***************************************************************************)
(* Fetcher: fetch                                                          *)
(***************************************************************************)
NoClone == [outcome |-> "none", code |-> "", message |-> <<>>, tree |-> {}]

\* A TempDir is dropped: Drop calls remove_dir_all and discards its error, so
\* the directory is deleted, or left on disk with no owner when the removal
\* fails (a directory made under a umask that takes the owner's read bit away
\* cannot be emptied).
TempAfterDrop == {"deleted", "left"}

\* TempDir::new() fails: fetch returns the I/O error and nothing was created.
FetchTempDirFails ==
    /\ pc = "start"
    /\ pc' = "done"
    /\ result' = Error("Io", "", <<>>)
    /\ UNCHANGED <<src, temp, opts, attempts, clone, notFetch>>

\* TempDir::new() succeeds and clone_repo configures and starts the clone.
FetchStart ==
    /\ pc = "start"
    /\ pc' = "clone"
    /\ temp' = "held"
    /\ opts' = CloneOpts(reference(src))
    /\ attempts' = attempts + 1
    /\ UNCHANGED <<src, clone, result, notFetch>>

\* Variant: a failed clone is attempted once more before fetch returns.
CloneFailsRetried(code, message) ==
    /\ pc = "clone"
    /\ pc' = IF attempts < 2 THEN "start" ELSE "done"
    /\ clone' = [NoClone EXCEPT !.outcome = "err", !.code = code, !.message = message]
    /\ result' = classify(src.url, code, message)
    /\ temp' \in TempAfterDrop
    /\ UNCHANGED <<src, opts, attempts, notFetch>>

\* builder.clone fails: the classified error is returned through `?`, and
\* the TempDir local of fetch is dropped.
CloneFails(code, message) ==
    /\ pc = "clone"
    /\ pc' = "done"
    /\ clone' = [NoClone EXCEPT !.outcome = "err", !.code = code, !.message = message]
    /\ result' = classify(src.url, code, message)
    /\ temp' \in TempAfterDrop
    /\ UNCHANGED <<src, opts, attempts, notFetch>>

\* builder.clone succeeds with `tree` checked out; fetch resolves the root.
CloneSucceeds(tree) ==
    LET root == IF src.subdir # NoneOpt
                THEN path_join(TempPath, src.subdir[1])
                ELSE TempPath
        named == IF src.subdir # NoneOpt THEN src.subdir[1]
                 ELSE [abs |-> FALSE, comps |-> <<>>]
    IN /\ pc = "clone"
       /\ pc' = "done"
       /\ clone' = [NoClone EXCEPT !.outcome = "ok", !.tree = tree]
       /\ IF ~root_exists(root, Filesystem(tree))
          THEN /\ result' = [NoError EXCEPT !.kind = "InvalidSource", !.url = src.url,
                                            !.names = named]
               /\ temp' \in TempAfterDrop
          ELSE /\ result' = [NoError EXCEPT !.kind = "Ok", !.root = root]
               /\ temp' = "owned"
       /\ UNCHANGED <<src, opts, attempts, notFetch>>

\* The caller is done with the FetchResult: dropping it drops its TempDir.
DropResult ==
    /\ pc = "done"
    /\ result.kind = "Ok"
    /\ pc' = "dropped"
    /\ temp' \in TempAfterDrop
    /\ UNCHANGED <<src, opts, attempts, clone, result, notFetch>>

FetchIdle ==
    /\ src = [url |-> "https://h/o/r.git", branch |-> NoneOpt, tag |-> NoneOpt,
              subdir |-> NoneOpt]
    /\ pc = "idle"
    /\ temp = "none"
    /\ opts = CloneOpts(NoneOpt)
    /\ attempts = 0
    /\ clone = NoClone
    /\ result = NoError

FetchCalled ==
    /\ src \in Sources
    /\ pc = "start"
    /\ temp = "none"
    /\ opts = CloneOpts(NoneOpt)
    /\ attempts = 0
    /\ clone = NoClone
    /\ result = NoError

NextFetch ==
    \/ FetchTempDirFails
    \/ FetchStart
    \/ \E code \in ErrorCodes, message \in Messages : CloneFails(code, message)
    \/ \E tree \in SUBSET TreeDirs : CloneSucceeds(tree)
    \/ DropResult

(***************************************************************************)
(* Fetcher: the credentials callback of clone_repo                         *)
(***************************************************************************)
CredentialTypes == {"SSH_KEY", "USER_PASS_PLAINTEXT", "DEFAULT"}

\* Whether each provider would deliver: the SSH agent, opening the default
\* git configuration, the credential helper, the default credential.
ProviderOutcomes == [agent : BOOLEAN, config : BOOLEAN, helper : BOOLEAN, default : BOOLEAN]

CredResult(tried, credential, error) ==
    [tried |-> tried, credential |-> credential, error |-> error]

\* The closure given to callbacks.credentials.
credentials(allowed, username, works) ==
    IF "SSH_KEY" \in allowed /\ username # NoneOpt
    THEN IF works.agent
         THEN CredResult(<<"ssh_agent">>, "ssh_key", "none")
         ELSE CredResult(<<"ssh_agent">>, "none", "ssh agent failed")
    ELSE IF "USER_PASS_PLAINTEXT" \in allowed
    THEN IF ~works.config
         THEN CredResult(<<"credential_helper">>, "none", "config failed")
         ELSE IF works.helper
         THEN CredResult(<<"credential_helper">>, "user_pass", "none")
         ELSE CredResult(<<"credential_helper">>, "none", "credential helper failed")
    ELSE IF "DEFAULT" \in allowed
    THEN IF works.default
         THEN CredResult(<<"default">>, "default", "none")
         ELSE CredResult(<<"default">>, "none", "default failed")
    ELSE CredResult(<<>>, "none", "no valid credentials available")

NoCred ==
    [called |-> FALSE, allowed |-> {}, username |-> NoneOpt,
     works |-> [agent |-> FALSE, config |-> FALSE, helper |-> FALSE, default |-> FALSE],
     out |-> CredResult(<<>>, "none", "none")]

\* The transport asks for credentials once.
CredentialsCallback(allowed, username, works) ==
    /\ cred' = [called |-> TRUE, allowed |-> allowed, username |-> username,
                works |-> works, out |-> credentials(allowed, username, works)]
    /\ UNCHANGED notCred

CredIdle == cred = NoCred

NextCred ==
    \E allowed \in SUBSET CredentialTypes, username \in {NoneOpt, SomeOpt("git")},
       works \in ProviderOutcomes :
        CredentialsCallback(allowed, username, works)

(***************************************************************************)
(* NameCodec: parse_owner_repo                                             *)
(***************************************************************************)
\* A string is the sequence of its characters.
DotGit == <<".", "g", "i", "t">>
GitAt == <<"g", "i", "t", "@">>
SchemeSep == <<":", "/", "/">>
Https == <<"h", "t", "t", "p", "s">>

starts_with(str, pat) == Len(pat) <= Len(str) /\ SubSeq(str, 1, Len(pat)) = pat

ends_with(str, pat) ==
    Len(pat) <= Len(str) /\ SubSeq(str, Len(str) - Len(pat) + 1, Len(str)) = pat

\* str::trim_end_matches: strips the suffix as often as it occurs.
RECURSIVE trim_end_matches(_, _)
trim_end_matches(str, pat) ==
    IF ends_with(str, pat)
    THEN trim_end_matches(SubSeq(str, 1, Len(str) - Len(pat)), pat)
    ELSE str

\* str::find: the 0-based index of the first occurrence, -1 for None.
find(str, pat) ==
    LET hits == {i \in 0..(Len(str) - Len(pat)) : SubSeq(str, i + 1, i + Len(pat)) = pat}
    IN IF hits = {} THEN -1 ELSE CHOOSE i \in hits : \A j \in hits : i <= j

\* str::split on one character.
RECURSIVE split(_, _)
split(str, sep) ==
    LET i == find(str, <<sep>>)
    IN IF i < 0 THEN <<str>>
       ELSE <<SubSeq(str, 1, i)>> \o split(SubSeq(str, i + 2, Len(str)), sep)

NoPair == [some |-> FALSE, owner |-> <<>>, repo |-> <<>>, panic |-> FALSE]
Pair(owner, repo) == [some |-> TRUE, owner |-> owner, repo |-> repo, panic |-> FALSE]
Panic == [NoPair EXCEPT !.panic = TRUE]

\* parts[1] and parts[2] of host/owner/repo, counted from 0.
UrlPair(parts) == Pair(parts[2], parts[3])

parse_owner_repo(given) ==
    LET url == trim_end_matches(given, DotGit)
        ssh == starts_with(url, GitAt)
        pieces == split(url, ":")
        idx == find(url, SchemeSep)
    IN IF ssh /\ Len(pieces) < 2 THEN NoPair
       ELSE IF ssh /\ Len(split(pieces[2], "/")) >= 2
       THEN Pair(split(pieces[2], "/")[1], split(pieces[2], "/")[2])
       ELSE IF idx >= 0
       THEN IF idx + 3 > Len(url) THEN Panic
            ELSE LET parts == split(SubSeq(url, idx + 4, Len(url)), "/")
                 IN IF Len(parts) >= 3 THEN UrlPair(parts) ELSE NoPair
       ELSE NoPair

\* Owner and repository names, hosts and users the URLs are written with.
Idents == SeqsUpTo({"a", "-"}, MaxIdLen) \ {<<>>}
Repos == Idents \cup {id \o DotGit : id \in Idents}
Hosts == {<<"h">>, <<"h", ".", "i", "o">>}
Users == {<<"g", "i", "t">>, <<"b", "o", "b">>}

UrlText(shape, user, host, owner, repo, dotgit) ==
    (IF shape = "https" THEN Https \o SchemeSep \o host \o <<"/">>
                        ELSE user \o <<"@">> \o host \o <<":">>)
        \o owner \o <<"/">> \o repo \o (IF dotgit THEN DotGit ELSE <<>>)

\* https://host/OWNER/REPO[.git] and user@host:OWNER/REPO[.git]
ShapedUrls ==
    {[shape |-> sh, user |-> u, host |-> h, owner |-> o, repo |-> r, dotgit |-> g,
      text |-> UrlText(sh, u, h, o, r, g)] :
        sh \in {"https", "ssh"}, u \in Users, h \in Hosts, o \in Idents, r \in Repos,
        g \in BOOLEAN}

\* Strings too short to have either shape.
RawUrls ==
    {[shape |-> "other", user |-> <<>>, host |-> <<>>, owner |-> <<>>, repo |-> <<>>,
      dotgit |-> FALSE, text |-> t] : t \in SeqsUpTo({"a", "/", ":", "@"}, MaxRawLen)}

NoUrl ==
    [shape |-> "none", user |-> <<>>, host |-> <<>>, owner |-> <<>>, repo |-> <<>>,
     dotgit |-> FALSE, text |-> <<>>]

NotParsed == [called |-> FALSE, out |-> NoPair]

ParseOwnerRepo ==
    /\ ~parsed.called
    /\ purl.shape # "none"
    /\ parsed' = [called |-> TRUE, out |-> parse_owner_repo(purl.text)]
    /\ UNCHANGED <<purl, notParse>>

ParseIdle == purl = NoUrl /\ parsed = NotParsed

ParseCalled == purl \in ShapedUrls \cup RawUrls /\ parsed = NotParsed

NextParse == ParseOwnerRepo

(***************************************************************************)
(* PathResolver: the accessors as called                                   *)
(***************************************************************************)
\* Values an environment variable or the home directory can hold: the empty
\* path, a directory, and a directory that already ends in "git".
PathValues == {<<>>, <<"x">>, <<"x", "git">>}

\* Every combination of SKILO_CACHE, SKILO_HOME and dirs::home_dir(), each
\* unset or holding one of the values.
PathEnvs ==
    LET opt == {None} \cup {Some(p) : p \in PathValues}
    IN [SKILO_CACHE : opt, SKILO_HOME : opt, home : opt]

GitDir ==
    /\ ret' = [op |-> "git_dir", path |-> git_dir(env)]
    /\ UNCHANGED <<env, db, checkouts, notCache>>

DbDir ==
    /\ ret' = [op |-> "db_dir", path |-> db_dir(env)]
    /\ UNCHANGED <<env, db, checkouts, notCache>>

CheckoutsDir ==
    /\ ret' = [op |-> "checkouts_dir", path |-> checkouts_dir(env)]
    /\ UNCHANGED <<env, db, checkouts, notCache>>

NextPath == GitDir \/ DbDir \/ CheckoutsDir

(***************************************************************************)
(* NameCodec: db_name and checkout_name                                    *)
(***************************************************************************)
\* A string is a sequence of chars; a char of more than one byte in UTF-8 is
\* written by its code point.
RevChars == {"a", "U+00E9"}
Revs == SeqsUpTo(RevChars, MaxRevLen)

\* char::len_utf8
len_utf8(c) == IF c = "U+00E9" THEN 2 ELSE 1

\* str::len: the length in bytes.
RECURSIVE byte_len(_)
byte_len(str) == IF str = <<>> THEN 0 ELSE len_utf8(Head(str)) + byte_len(Tail(str))

Min(a, b) == IF a <= b THEN a ELSE b

\* &str[..n]: a byte range; it panics when byte index n is not on a char
\* boundary, that is when no number of chars ends there.
slice_to(str, n) ==
    LET ends == {k \in 0..Len(str) : byte_len(SubSeq(str, 1, k)) = n}
    IN IF ends = {} THEN [panic |-> TRUE, str |-> <<>>]
       ELSE [panic |-> FALSE, str |-> SubSeq(str, 1, CHOOSE k \in ends : TRUE)]

\* The length of a short revision.
ShortRev == 7

db_name(owner, repo) == owner \o <<"-">> \o repo

checkout_name(owner, repo, rev) ==
    LET short_rev == slice_to(rev, Min(ShortRev, byte_len(rev)))
    IN IF short_rev.panic THEN [panic |-> TRUE, name |-> <<>>]
       ELSE [panic |-> FALSE,
             name |-> owner \o <<"-">> \o repo \o <<"-">> \o short_rev.str]

NotNamed == [op |-> "none", panic |-> FALSE, name |-> <<>>]

DbName ==
    /\ nout' = [op |-> "db_name", panic |-> FALSE,
                 name |-> db_name(nreq.owner, nreq.repo)]
    /\ UNCHANGED <<nreq, notName>>

CheckoutName ==
    /\ nout' = [op |-> "checkout_name",
                 panic |-> checkout_name(nreq.owner, nreq.repo, nreq.rev).panic,
                 name |-> checkout_name(nreq.owner, nreq.repo, nreq.rev).name]
    /\ UNCHANGED <<nreq, notName>>

NameIdle ==
    /\ nreq = [owner |-> <<"a">>, repo |-> <<"a">>, rev |-> <<>>]
    /\ nout = NotNamed

NameCalled ==
    /\ nreq \in [owner : Idents, repo : Idents, rev : Revs]
    /\ nout = NotNamed

NextName == DbName \/ CheckoutName

(***************************************************************************)
(* CacheStore: format_size                                                 *)
(***************************************************************************)
KB == 1024
MB == KB * 1024
GB == MB * 1024

\* Byte counts: the eighths of each unit, and the counts next to them.
ByteCounts ==
    {b \in {n * (u \div 8) + d : u \in {KB, MB, GB}, n \in 0..MaxEighths, d \in -1..1} :
        b >= 0}

Digit(d) == <<"0", "1", "2", "3", "4", "5", "6", "7", "8", "9">>[d + 1]

\* format!("{}", n)
RECURSIVE Decimal(_)
Decimal(n) == IF n < 10 THEN <<Digit(n)>> ELSE Append(Decimal(n \div 10), Digit(n % 10))

\* The tenths printed by format!("{:.1}", bytes as f64 / unit as f64).  The
\* unit is a power of two and bytes is below 2^53, so the f64 quotient is
\* exact; it is printed rounded to the nearest tenth, a tie to the even digit.
\* The remainder is split at unit / 1024 to stay within 32-bit integers.
Tenths(count, unit) ==
    LET w == unit \div 1024
        rem == count % unit
        s == 10 * (rem \div w) + (10 * (rem % w)) \div w
        low == (10 * (rem % w)) % w
        down == 10 * (count \div unit) + s \div 1024
        left == (s % 1024) * w + low
    IN IF left > unit - left \/ (left = unit - left /\ down % 2 = 1)
       THEN down + 1 ELSE down

Fixed1(count, unit) ==
    Decimal(Tenths(count, unit) \div 10) \o <<".", Digit(Tenths(count, unit) % 10)>>

\* Variant: the thresholds compared with > in place of >=.
format_sizeGt(n) ==
    IF n > GB THEN Fixed1(n, GB) \o <<" ", "G", "B">>
    ELSE IF n > MB THEN Fixed1(n, MB) \o <<" ", "M", "B">>
    ELSE IF n > KB THEN Fixed1(n, KB) \o <<" ", "K", "B">>
    ELSE Decimal(n) \o <<" ", "B">>

format_size(n) ==
    IF n >= GB THEN Fixed1(n, GB) \o <<" ", "G", "B">>
    ELSE IF n >= MB THEN Fixed1(n, MB) \o <<" ", "M", "B">>
    ELSE IF n >= KB THEN Fixed1(n, KB) \o <<" ", "K", "B">>
    ELSE Decimal(n) \o <<" ", "B">>

\* format_size not called yet: no text.
NotFormatted == <<>>

FormatSize ==
    /\ text = NotFormatted
    /\ text' = format_size(bytes)
    /\ UNCHANGED <<bytes, notSize>>

SizeIdle == bytes = 0 /\ text = NotFormatted

SizeCalled == bytes \in ByteCounts /\ text = NotFormatted

(***************************************************************************)
(* Validator: rule registration and validate                               *)
(***************************************************************************)
\* Threshold: Default, Disabled, Value(n)
Default == [kind |-> "Default", n |-> 0]
ThresholdValues == {Default, [kind |-> "Disabled", n |-> 0], [kind |-> "Value", n |-> 1]}

\* Threshold::resolve, an Option<usize>
resolve(t, default) ==
    IF t.kind = "Default" THEN [some |-> TRUE, n |-> default]
    ELSE IF t.kind = "Disabled" THEN [some |-> FALSE, n |-> 0]
    ELSE [some |-> TRUE, n |-> t.n]

\* RulesConfig::default
DefaultRules ==
    [name_format |-> TRUE, name_length |-> Default, name_directory |-> TRUE,
     description_required |-> TRUE, description_length |-> Default,
     compatibility_length |-> Default, references_exist |-> TRUE,
     body_length |-> Default, script_executable |-> TRUE, script_shebang |-> TRUE]

\* The rule configurations that differ from the default in at most MaxChanged
\* settings: a switch turned off, a threshold disabled or given a value.
RuleConfigs ==
    {c \in [name_format : BOOLEAN, name_length : ThresholdValues,
            name_directory : BOOLEAN, description_required : BOOLEAN,
            description_length : ThresholdValues,
            compatibility_length : ThresholdValues,
            references_exist : BOOLEAN, body_length : ThresholdValues,
            script_executable : BOOLEAN, script_shebang : BOOLEAN] :
        Cardinality({f \in DOMAIN DefaultRules : c[f] # DefaultRules[f]}) <= MaxChanged}

\* Variant: E009 left out of the match.
is_errorWithoutE009(code) ==
    code \in {"E001", "E002", "E003", "E004", "E005", "E006", "E007", "E008"}

\* DiagnosticCode::is_error, over the codes E001..E009 and W001..W004.
is_error(code) ==
    code \in {"E001", "E002", "E003", "E004", "E005", "E006", "E007", "E008", "E009"}

\* The code each rule reports, by the setting that enables the rule.
CodeOf ==
    [name_format |-> "E001", name_length |-> "E002", name_directory |-> "E003",
     description_required |-> "E004", description_length |-> "E005",
     compatibility_length |-> "E006", references_exist |-> "E009",
     body_length |-> "W001", script_executable |-> "W002", script_shebang |-> "W003"]

\* A rule, by the setting that enables it, and its limit (0 when it has none).
Rule(name, max) == [name |-> name, max |-> max]

Push(rules, enabled, rule) == IF enabled THEN Append(rules, rule) ELSE rules

\* Validator::new: the rules pushed, in this order, when their setting allows.
new(config) ==
    LET r1 == Push(<<>>, config.name_format, Rule("name_format", 0))
        r2 == Push(r1, resolve(config.name_length, 64).some,
                   Rule("name_length", resolve(config.name_length, 64).n))
        r3 == Push(r2, config.name_directory, Rule("name_directory", 0))
        r4 == Push(r3, config.description_required, Rule("description_required", 0))
        r5 == Push(r4, resolve(config.description_length, 1024).some,
                   Rule("description_length", resolve(config.description_length, 1024).n))
        r6 == Push(r5, resolve(config.compatibility_length, 500).some,
                   Rule("compatibility_length",
                        resolve(config.compatibility_length, 500).n))
        r7 == Push(r6, config.references_exist, Rule("references_exist", 0))
        r8 == Push(r7, resolve(config.body_length, 500).some,
                   Rule("body_length", resolve(config.body_length, 500).n))
        r9 == Push(r8, config.script_executable, Rule("script_executable", 0))
    IN Push(r9, config.script_shebang, Rule("script_shebang", 0))

\* A manifest, as far as validate sees it: how many diagnostics each rule
\* finds in it, MaxFindings in all.  The compatibility rule finds at most one.
Manifests ==
    {m \in {[f \in DOMAIN DefaultRules |-> Cardinality({i \in DOMAIN q : q[i] = f})] :
                q \in SeqsUpTo(DOMAIN DefaultRules, MaxFindings)} :
        m["compatibility_length"] <= 1}

\* rule.check(manifest): the diagnostics of one rule, in the order found.
check(rule, manifest) ==
    [i \in 1..manifest[rule.name] |->
        [rule |-> rule.name, code |-> CodeOf[rule.name], nth |-> i]]

EmptyResult == [errors |-> <<>>, warnings |-> <<>>]

\* The inner loop of validate: each diagnostic is pushed to one of the lists.
RECURSIVE route(_, _)
route(acc, diagnostics) ==
    IF diagnostics = <<>> THEN acc
    ELSE route(IF is_error(Head(diagnostics).code)
               THEN [acc EXCEPT !.errors = Append(@, Head(diagnostics))]
               ELSE [acc EXCEPT !.warnings = Append(@, Head(diagnostics))],
               Tail(diagnostics))

\* The outer loop of validate, over the registered rules.
RECURSIVE run(_, _, _)
run(rules, manifest, acc) ==
    IF rules = <<>> THEN acc
    ELSE run(Tail(rules), manifest, route(acc, check(Head(rules), manifest)))

validate(rules, manifest) == run(rules, manifest, EmptyResult)

\* ValidationResult::is_ok
is_ok(acc) == acc.errors = <<>>

\* ValidationResult::merge
merge(acc, other) ==
    [errors |-> acc.errors \o other.errors, warnings |-> acc.warnings \o other.warnings]

NotValidated == [done |-> FALSE, merges |-> 0, result |-> EmptyResult, ok |-> TRUE]

\* Validator::new(&config).validate(&manifest)
Validate ==
    /\ ~validation.done
    /\ validation' =
          [done |-> TRUE, merges |-> 0,
           result |-> validate(new(lint.config), lint.manifest),
           ok |-> is_ok(validate(new(lint.config), lint.manifest))]
    /\ UNCHANGED <<lint, notValid>>

\* The manifests whose results are merged into another: with or without a
\* malformed name, with or without a script that is not executable.
MergedManifests ==
    {[f \in DOMAIN DefaultRules |->
         IF f = "name_format" THEN e ELSE IF f = "script_executable" THEN w ELSE 0] :
        e \in 0..1, w \in 0..1}

\* result.merge(other), other the result of the same validator on another
\* manifest; is_ok() is read again afterwards.
Merge(manifest) ==
    /\ validation.done
    /\ validation.merges < MaxMerges
    /\ validation' =
          LET merged == merge(validation.result, validate(new(lint.config), manifest))
          IN [done |-> TRUE, merges |-> validation.merges + 1,
              result |-> merged, ok |-> is_ok(merged)]
    /\ UNCHANGED <<lint, notValid>>

NextValid == Validate \/ \E m \in MergedManifests : Merge(m)

ValidIdle ==
    /\ lint = [config |-> DefaultRules, manifest |-> [f \in DOMAIN DefaultRules |-> 0]]
    /\ validation = NotValidated

ValidCalled ==
    /\ lint \in [config : RuleConfigs, manifest : Manifests]
    /\ validation = NotValidated

\* The components whose functions are not being called.
PureIdle == NameIdle /\ SizeIdle /\ ValidIdle

(***************************************************************************)
(* Collaborators and the environment                                       *)
(***************************************************************************)
NoRet == [op |-> "none"]

\* ensure_dir(checkouts_dir()): create_dir_all, a no-op when it exists.  The
\* umask of the process decides whether the new directory can be enumerated.
EnsureCheckoutsDir(listable) ==
    /\ checkouts_dir(env).some
    /\ ~Exists(checkouts)
    /\ checkouts' = EmptyDir(CheckoutNames, listable)
    /\ ret' = NoRet
    /\ UNCHANGED <<env, db, notCache>>

\* A collaborator materialises a checkout.
AddCheckout(n, size, mtime, removable) ==
    /\ Exists(checkouts)
    /\ checkouts.ents[n] = Absent
    /\ checkouts' = [checkouts EXCEPT !.ents[n] = DirEntry(size, mtime, removable)]
    /\ ret' = NoRet
    /\ UNCHANGED <<env, db, notCache>>

\* A stray non-directory entry appears in checkouts/.
AddCheckoutFile(n) ==
    /\ Exists(checkouts)
    /\ checkouts.ents[n] = Absent
    /\ checkouts' = [checkouts EXCEPT !.ents[n] = FileEntry]
    /\ ret' = NoRet
    /\ UNCHANGED <<env, db, notCache>>

\* ensure_dir(db_dir())
EnsureDbDir(listable) ==
    /\ db_dir(env).some
    /\ ~Exists(db)
    /\ db' = EmptyDir(MirrorNames, listable)
    /\ ret' = NoRet
    /\ UNCHANGED <<env, checkouts, notCache>>

\* A collaborator creates a mirror.
AddMirror(n, size, removable) ==
    /\ Exists(db)
    /\ db.ents[n] = Absent
    /\ db' = [db EXCEPT !.ents[n] = DirEntry(size, 0, removable)]
    /\ ret' = NoRet
    /\ UNCHANGED <<env, checkouts, notCache>>

\* A stray non-directory entry appears in db/.
AddMirrorFile(n) ==
    /\ Exists(db)
    /\ db.ents[n] = Absent
    /\ db' = [db EXCEPT !.ents[n] = FileEntry]
    /\ ret' = NoRet
    /\ UNCHANGED <<env, checkouts, notCache>>

CacheIdle ==
    /\ env \in CacheEnvs
    /\ db = NoDir(MirrorNames)
    /\ checkouts = NoDir(CheckoutNames)
    /\ ret = NoRet

InitCache == CacheIdle /\ FetchIdle /\ CredIdle /\ ParseIdle /\ PureIdle

NextEvict ==
    \/ \E l \in BOOLEAN : EnsureCheckoutsDir(l)
    \/ \E n \in CheckoutNames, s \in Sizes, t \in MTimes :
          \E r \in Removable(n) : AddCheckout(n, s, t, r)
    \/ \E n \in CheckoutNames : AddCheckoutFile(n)
    \/ \E days \in Days, now \in ClockTimes : CleanOld(days, now)

SpecEvict == InitCache /\ [][NextEvict]_vars

\* The inventory and clean_all over a cache of mirrors, checkouts and stray
\* files, every entry made at time 0 and clean_all called one day later.
NextCache ==
    \/ \E l \in BOOLEAN : EnsureCheckoutsDir(l)
    \/ \E l \in BOOLEAN : EnsureDbDir(l)
    \/ \E n \in CheckoutNames, s \in Sizes :
          \E r \in Removable(n) : AddCheckout(n, s, 0, r)
    \/ \E n \in CheckoutNames : AddCheckoutFile(n)
    \/ \E n \in MirrorNames, s \in Sizes :
          \E r \in Removable(n) : AddMirror(n, s, r)
    \/ \E n \in MirrorNames : AddMirrorFile(n)
    \/ CleanAll(SecsPerDay)
    \/ \E oDb \in Orders(SubDirs(db)), oCo \in Orders(SubDirs(checkouts)) :
          Collect(oDb, oCo)

SpecCache == InitCache /\ [][NextCache]_vars

\* The fetcher and the credentials callback do not touch the cache.
CacheUnused == CacheIdle /\ env.SKILO_CACHE.some

InitFetch == FetchCalled /\ CacheUnused /\ CredIdle /\ ParseIdle /\ PureIdle

SpecFetch == InitFetch /\ [][NextFetch]_vars

InitCred == FetchIdle /\ CacheUnused /\ CredIdle /\ ParseIdle /\ PureIdle

SpecCred == InitCred /\ [][NextCred]_vars

InitParse == ParseCalled /\ CacheUnused /\ FetchIdle /\ CredIdle /\ PureIdle

SpecParse == InitParse /\ [][NextParse]_vars

\* The path accessors, under every environment.
InitPath ==
    /\ env \in PathEnvs
    /\ db = NoDir(MirrorNames)
    /\ checkouts = NoDir(CheckoutNames)
    /\ ret = NoRet
    /\ FetchIdle /\ CredIdle /\ ParseIdle /\ PureIdle

SpecPath == InitPath /\ [][NextPath]_vars

InitName ==
    NameCalled /\ CacheUnused /\ FetchIdle /\ CredIdle /\ ParseIdle /\ SizeIdle /\ ValidIdle

SpecName == InitName /\ [][NextName]_vars

InitSize ==
    SizeCalled /\ CacheUnused /\ FetchIdle /\ CredIdle /\ ParseIdle /\ NameIdle /\ ValidIdle

SpecSize == InitSize /\ [][FormatSize]_vars

InitValid ==
    ValidCalled /\ CacheUnused /\ FetchIdle /\ CredIdle /\ ParseIdle /\ NameIdle /\ SizeIdle

SpecValid == InitValid /\ [][NextValid]_vars

\* Both eviction passes over a cache of mirrors and checkouts, every checkout
\* last modified at time 0 and the clock read one day later.
NextSweep ==
    \/ \E l \in BOOLEAN : EnsureCheckoutsDir(l)
    \/ \E l \in BOOLEAN : EnsureDbDir(l)
    \/ \E n \in CheckoutNames, s \in Sizes :
          \E r \in Removable(n) : AddCheckout(n, s, 0, r)
    \/ \E n \in MirrorNames, s \in Sizes :
          \E r \in Removable(n) : AddMirror(n, s, r)
    \/ \E days \in Days : CleanOld(days, SecsPerDay)
    \/ CleanAll(SecsPerDay)

SpecSweep == InitCache /\ [][NextSweep]_vars

(***************************************************************************)
(* Claims about clean_old_checkouts                                        *)
(***************************************************************************)
\* The immediate subdirectories of checkouts/ before the call whose age,
\* now minus modification time, strictly exceeds the given number of days.
C1_Aged ==
    {n \in CheckoutNames :
        /\ ret.before.exists
        /\ ret.before.ents[n].kind = "dir"
        /\ ret.now - ret.before.ents[n].mtime > ret.days * 24 * 60 * 60}

C1_RemovedExactly(S) ==
    /\ \A n \in CheckoutNames :
          checkouts.ents[n] = IF n \in S THEN Absent ELSE ret.before.ents[n]
    /\ checkouts.exists = ret.before.exists
    /\ ret.removed = Cardinality(S)
    /\ ret.freed = SumSizes(ret.before, S)

\* C1 as stated: clean_old_checkouts(N) removes exactly the immediate
\* subdirectories of checkouts/ whose age strictly exceeds N days, leaves every
\* other entry untouched, and returns their number and the sum of their sizes.
C1_Original == ret.op = "clean_old" => C1_RemovedExactly(C1_Aged)

\* The aged subdirectories the pass sees: all of them when checkouts/ can be
\* enumerated, none when it cannot.
C1_Seen == {n \in C1_Aged : ret.before.listable}

\* C1 amended: clean_old_checkouts(N) removes exactly the immediate
\* subdirectories of checkouts/ whose age strictly exceeds N days and whose
\* removal succeeds, provided checkouts/ can be enumerated, and none when it
\* cannot; an aged subdirectory whose removal fails stays in checkouts/, with
\* all or part of its content and not larger than it was; every other entry
\* (one exactly N days old, one modified in the future, a non-directory) is
\* left as it was; the returned count and freed bytes are the number and the
\* summed sizes, taken before the removal, of the removed entries.
C1_Amended ==
    ret.op = "clean_old" =>
        LET removed == {n \in C1_Seen : ret.before.ents[n].removable}
            failed == {n \in C1_Seen : ~ret.before.ents[n].removable}
        IN /\ \A n \in removed : checkouts.ents[n] = Absent
           /\ \A n \in failed :
                 /\ checkouts.ents[n].kind = "dir"
                 /\ checkouts.ents[n].size <= ret.before.ents[n].size
           /\ \A n \in CheckoutNames \ (removed \cup failed) :
                 checkouts.ents[n] = ret.before.ents[n]
           /\ checkouts.exists = ret.before.exists
           /\ ret.removed = Cardinality(removed)
           /\ ret.freed = SumSizes(ret.before, removed)

\* A pass that removed an entry older than N days and kept an entry exactly
\* N days old.
C1_Witness ==
    /\ ret.op = "clean_old"
    /\ \E n \in C1_Aged : checkouts.ents[n] = Absent
    /\ \E m \in CheckoutNames :
          /\ ret.before.ents[m].kind = "dir"
          /\ ret.now - ret.before.ents[m].mtime = ret.days * 24 * 60 * 60
          /\ checkouts.ents[m] = ret.before.ents[m]

(***************************************************************************)
(* Claims about clean_all                                                  *)
(***************************************************************************)
\* The top-level entries a directory holds on disk, files included, whether
\* or not the directory can be enumerated.
C2_Held(d) == {n \in DOMAIN d.ents : d.exists /\ d.ents[n] # Absent}

C2_Counts ==
    /\ ret.repos_removed =
          Cardinality(C2_Held(ret.before_db)) - Cardinality(C2_Held(db))
    /\ ret.checkouts_removed =
          Cardinality(C2_Held(ret.before_checkouts)) - Cardinality(C2_Held(checkouts))

\* C2 as stated: after clean_all, db/ and checkouts/ are empty if they
\* existed, whatever they held, and the returned counts are the numbers of
\* top-level entries removed from each.
C2_Original ==
    ret.op = "clean_all" =>
        /\ C2_Held(db) = {}
        /\ C2_Held(checkouts) = {}
        /\ C2_Counts

C2_Swept(before, after) ==
    /\ after.exists = before.exists
    /\ \A n \in DOMAIN before.ents :
          IF before.ents[n].kind # "dir" \/ ~before.listable
          THEN after.ents[n] = before.ents[n]
          ELSE IF before.ents[n].removable
          THEN after.ents[n] = Absent
          ELSE /\ after.ents[n].kind = "dir"
               /\ after.ents[n].size <= before.ents[n].size

\* C2 amended: after clean_all, each of db/ and checkouts/ that can be
\* enumerated holds no immediate subdirectory whose removal succeeded; a
\* subdirectory whose removal failed is still there, with all or part of its
\* content; non-directory entries, and every entry of a directory that cannot
\* be enumerated, remain as they were; the returned mirror and checkout counts
\* are the numbers of top-level entries removed from each.
C2_Amended ==
    ret.op = "clean_all" =>
        /\ C2_Swept(ret.before_db, db)
        /\ C2_Swept(ret.before_checkouts, checkouts)
        /\ C2_Counts

\* A clean_all that removed a mirror and a checkout and left a stray file
\* behind in checkouts/.
C2_Witness ==
    /\ ret.op = "clean_all"
    /\ ret.repos_removed >= 1
    /\ ret.checkouts_removed >= 1
    /\ \E n \in CheckoutNames : checkouts.ents[n].kind = "file"

(***************************************************************************)
(* Claims about CacheStats::collect                                        *)
(***************************************************************************)
\* C10: collect() on a cache root that is unknown or absent, or whose db/ and
\* checkouts/ are absent or empty, returns empty lists and zero db, checkout
\* and total sizes, without an error.
C10_EmptyCache ==
    (/\ ret.op = "collect"
     /\ \/ ~git_dir(env).some
        \/ /\ \A n \in MirrorNames : db.ents[n] = Absent
           /\ \A n \in CheckoutNames : checkouts.ents[n] = Absent)
    => /\ ret.ok
       /\ ret.stats.repos = <<>>
       /\ ret.stats.checkouts = <<>>
       /\ ret.stats.db_size = 0
       /\ ret.stats.checkouts_size = 0
       /\ ret.total = 0

\* collect() ran on a known cache root where db/ is absent and checkouts/
\* exists and is empty.
C10_Witness ==
    /\ ret.op = "collect"
    /\ git_dir(env).some
    /\ ~db.exists
    /\ checkouts.exists
    /\ \A n \in CheckoutNames : checkouts.ents[n] = Absent

(***************************************************************************)
(* Claims about fetch and clone_repo                                       *)
(***************************************************************************)
\* C3: whenever the clone fails with the not-found status, fetch returns a
\* repository-not-found error carrying the original URL, whatever the
\* underlying message.
C3_NotFoundIsRepoNotFound ==
    (clone.outcome = "err" /\ clone.code = "NotFound")
    => (result.kind = "RepoNotFound" /\ result.url = src.url)

\* The providers of a credential request that apply, in the fixed order.
C4_Applies(p) ==
    CASE p = "ssh_agent" -> "SSH_KEY" \in cred.allowed /\ cred.username # NoneOpt
      [] p = "credential_helper" -> "USER_PASS_PLAINTEXT" \in cred.allowed
      [] p = "default" -> "DEFAULT" \in cred.allowed

C4_Succeeds(p) ==
    CASE p = "ssh_agent" -> cred.works.agent
      [] p = "credential_helper" -> cred.works.config /\ cred.works.helper
      [] p = "default" -> cred.works.default

C4_Credential(p) ==
    CASE p = "ssh_agent" -> "ssh_key"
      [] p = "credential_helper" -> "user_pass"
      [] p = "default" -> "default"

C4_Order == <<"ssh_agent", "credential_helper", "default">>

\* The applicable providers up to and including the first that succeeds.
RECURSIVE C4_Chain(_)
C4_Chain(i) ==
    IF i > Len(C4_Order) THEN <<>>
    ELSE IF ~C4_Applies(C4_Order[i]) THEN C4_Chain(i + 1)
    ELSE IF C4_Succeeds(C4_Order[i]) THEN <<C4_Order[i]>>
    ELSE <<C4_Order[i]>> \o C4_Chain(i + 1)

\* C4: in each credential request the providers are tried in the fixed order,
\* each only if it applies, stopping at the first that succeeds; a provider
\* that applies but fails is followed by the next applicable one; "no
\* credentials available" is produced only when no provider applies.
C4_FallbackChain ==
    cred.called =>
        LET chain == C4_Chain(1)
        IN /\ cred.out.tried = chain
           /\ (chain # <<>> /\ C4_Succeeds(chain[Len(chain)]))
                => cred.out.credential = C4_Credential(chain[Len(chain)])
           /\ (cred.out.error = "no valid credentials available") <=> (chain = <<>>)

\* C6: the temporary directory is removed on every exit path of fetch: after a
\* failed clone, after a missing subdir, and when the caller drops the
\* FetchResult; a finished fetch leaves it either owned by the live FetchResult
\* or deleted.
C6_TempReleased ==
    /\ (pc = "done" /\ result.kind = "Ok") => temp = "owned"
    /\ (pc = "done" /\ result.kind = "Io") => temp = "none"
    /\ (pc = "done" /\ result.kind \notin {"Ok", "Io"}) => temp = "deleted"
    /\ pc = "dropped" => temp = "deleted"

\* C7: a requested subdir whose path under the temporary directory does not
\* exist after a successful clone gives an invalid-source error naming that
\* subdir; a clone failure gives the clone's classified error, never
\* invalid-source.
C7_InvalidSource ==
    pc \in {"done", "dropped"} =>
        /\ (/\ clone.outcome = "ok"
            /\ src.subdir # NoneOpt
            /\ ~Walk(<<>>, path_join(TempPath, src.subdir[1]).comps,
                     Filesystem(clone.tree)).ok)
           => (/\ result.kind = "InvalidSource"
               /\ result.url = src.url
               /\ result.names = src.subdir[1])
        /\ clone.outcome = "err" => result.kind \in {"Network", "RepoNotFound", "Git"}
        /\ result.kind = "InvalidSource" => clone.outcome = "ok"

\* The clone succeeded without a skills directory and the subdir "skills" was
\* requested.
C7_Witness ==
    /\ pc = "done"
    /\ clone.outcome = "ok"
    /\ "skills" \notin clone.tree
    /\ src.subdir = SomeOpt([abs |-> FALSE, comps |-> <<"skills">>])
    /\ result.kind = "InvalidSource"

\* C8: on success the returned root is inside the temporary directory: the
\* directory itself without a subdir, a path under it with one, for every
\* subdir string.
C8_RootInsideTemp ==
    result.kind = "Ok" =>
        /\ src.subdir = NoneOpt => result.root = TempPath
        /\ src.subdir # NoneOpt =>
              IsPrefix(TempPath.comps,
                       Walk(<<>>, result.root.comps, Filesystem(clone.tree)).at)

\* C9: clone_repo asks for a depth-1 transfer exactly when no reference
\* (branch, else tag) was requested; with a reference there is no depth limit
\* and the reference is the branch to check out.
C9_DepthPolicy ==
    attempts >= 1 =>
        LET ref == IF src.branch # NoneOpt THEN src.branch ELSE src.tag
        IN /\ opts.depth = 1 <=> ref = NoneOpt
           /\ ref # NoneOpt => (opts.depth = 0 /\ opts.branch = ref)

\* A clone was configured for a source with a tag and no branch.
C9_Witness ==
    /\ attempts >= 1
    /\ src.branch = NoneOpt
    /\ src.tag # NoneOpt
    /\ opts.depth = 0
    /\ opts.branch = src.tag

(***************************************************************************)
(* Claims about parse_owner_repo                                           *)
(***************************************************************************)
\* C5: every https://host/OWNER/REPO[.git] and every
\* user@host:OWNER/REPO[.git] parses to exactly (OWNER, REPO); a URL of any
\* other shape gives no result, and nothing makes the parser fail.
C5_Original ==
    parsed.called =>
        /\ ~parsed.out.panic
        /\ purl.shape \in {"https", "ssh"} => parsed.out = Pair(purl.owner, purl.repo)
        /\ purl.shape = "other" => ~parsed.out.some

(***************************************************************************)
(* Claims about checkout_name                                              *)
(***************************************************************************)
\* The first 7 characters of a revision, or all of it when it is shorter.
C11_Suffix(rev) == SubSeq(rev, 1, Min(7, Len(rev)))

\* C11: for every owner, repo and revision, checkout_name does not fail and
\* returns owner, "-", repo, "-" and the first 7 characters of the revision,
\* or the whole revision when it has fewer than 7 characters.
C11_CheckoutName ==
    nout.op = "checkout_name" =>
        /\ ~nout.panic
        /\ nout.name =
              nreq.owner \o <<"-">> \o nreq.repo \o <<"-">> \o C11_Suffix(nreq.rev)

(***************************************************************************)
(* Claims about the path accessors                                         *)
(***************************************************************************)
\* The cache root as the claim gives it: the cache override, else the home
\* override and "git", else the home directory, ".skilo" and "git", else
\* nothing.
C12_Root ==
    IF env.SKILO_CACHE.some THEN env.SKILO_CACHE
    ELSE IF env.SKILO_HOME.some THEN Some(env.SKILO_HOME.path \o <<"git">>)
    ELSE IF env.home.some THEN Some(env.home.path \o <<".skilo", "git">>)
    ELSE None

C12_Under(segment) ==
    IF C12_Root.some THEN Some(C12_Root.path \o <<segment>>) ELSE None

\* C12: git_dir returns the value of SKILO_CACHE whenever it is set, whatever
\* SKILO_HOME is; otherwise SKILO_HOME joined with "git"; otherwise the home
\* directory joined with ".skilo/git"; it returns nothing exactly when
\* neither variable is set and there is no home directory.  db_dir and
\* checkouts_dir are git_dir joined with "db" and with "checkouts".
C12_CacheRoot ==
    /\ ret.op = "git_dir" =>
          /\ ret.path = C12_Root
          /\ ~ret.path.some <=>
                ~env.SKILO_CACHE.some /\ ~env.SKILO_HOME.some /\ ~env.home.some
    /\ ret.op = "db_dir" => ret.path = C12_Under("db")
    /\ ret.op = "checkouts_dir" => ret.path = C12_Under("checkouts")

\* git_dir was called with both overrides set, to different directories, and
\* a home directory.
C12_Witness ==
    /\ ret.op = "git_dir"
    /\ env.SKILO_CACHE.some
    /\ env.SKILO_HOME.some
    /\ env.home.some
    /\ env.SKILO_CACHE.path # env.SKILO_HOME.path \o <<"git">>

(***************************************************************************)
(* Claims about format_size                                                *)
(***************************************************************************)
\* The unit the claim assigns to a byte count: its size and its name.
C13_Unit ==
    IF bytes < 1024 THEN [size |-> 1, name |-> <<"B">>]
    ELSE IF bytes < 1024 * 1024 THEN [size |-> 1024, name |-> <<"K", "B">>]
    ELSE IF bytes < 1024 * 1024 * 1024 THEN [size |-> 1024 * 1024, name |-> <<"M", "B">>]
    ELSE [size |-> 1024 * 1024 * 1024, name |-> <<"G", "B">>]

\* t tenths is bytes / unit to one decimal place: 10 * bytes and t * unit
\* differ by at most half a unit.  With unit = 1024 * w and
\* bytes % unit = hi * w + lo, the difference of the two, less the whole units,
\* is w * (10 * hi - 1024 * (t - 10 * whole)) + 10 * lo.
C13_OneDecimal(t, unit) ==
    LET w == unit \div 1024
        frac == t - 10 * (bytes \div unit)
        a == 10 * ((bytes % unit) \div w) - 1024 * frac
        b == 10 * ((bytes % unit) % w)
    IN /\ frac \in 0..10
       /\ -(512 + a) <= b \div w
       /\ \/ b \div w < 512 - a
          \/ b \div w = 512 - a /\ b % w = 0

\* C13: format_size prints a count below 1024 as the integer and " B"; any
\* other count as the count divided by its unit, to one decimal place, and
\* " KB" below 1024^2, " MB" below 1024^3, " GB" from there on.
C13_FormatSize ==
    text # NotFormatted =>
        IF C13_Unit.size = 1 THEN text = Decimal(bytes) \o <<" ", "B">>
        ELSE \E t \in 10 * (bytes \div C13_Unit.size)..10 * (bytes \div C13_Unit.size) + 10 :
                /\ C13_OneDecimal(t, C13_Unit.size)
                /\ text = Decimal(t \div 10) \o <<".", Digit(t % 10), " ">>
                             \o C13_Unit.name

\* format_size printed the count one byte below 1024^2.
C13_Witness ==
    /\ bytes = 1024 * 1024 - 1
    /\ text = <<"1", "0", "2", "4", ".", "0", " ", "K", "B">>

(***************************************************************************)
(* Claims about the failures of an eviction pass                           *)
(***************************************************************************)
\* The subdirectories of `before` a pass tries to remove: all of them in
\* clean_all, those older than the age limit in clean_old_checkouts.
C14_Tried(before) ==
    {n \in DOMAIN before.ents :
        /\ before.exists
        /\ before.listable
        /\ before.ents[n].kind = "dir"
        /\ ret.op = "clean_old" =>
              /\ before.ents[n].mtime <= ret.now
              /\ ret.now - before.ents[n].mtime > ret.days * 24 * 60 * 60}

C14_Failed(before) == {n \in C14_Tried(before) : ~before.ents[n].removable}

\* Every entry whose removal failed is still there, whatever it lost of its
\* content, and every other entry the pass tried is gone.
C14_Continued(before, after) ==
    /\ \A n \in C14_Failed(before) : after.ents[n].kind = "dir"
    /\ \A n \in C14_Tried(before) \ C14_Failed(before) : after.ents[n] = Absent

\* C14: in clean_old_checkouts and in clean_all an entry whose removal fails
\* is not counted and its size is not freed, the entries after it are still
\* processed, and the call returns Ok; clean_old_checkouts returns (0, 0)
\* when checkouts/ does not exist.
C14_BestEffort ==
    /\ ret.op = "clean_old" =>
          /\ ret.ok
          /\ C14_Continued(ret.before, checkouts)
          /\ ret.removed = Cardinality(C14_Tried(ret.before) \ C14_Failed(ret.before))
          /\ ret.freed =
                SumSizes(ret.before, C14_Tried(ret.before) \ C14_Failed(ret.before))
          /\ ~ret.before.exists => ret.removed = 0 /\ ret.freed = 0
    /\ ret.op = "clean_all" =>
          /\ ret.ok
          /\ C14_Continued(ret.before_checkouts, checkouts)
          /\ C14_Continued(ret.before_db, db)
          /\ ret.checkouts_removed =
                Cardinality(C14_Tried(ret.before_checkouts)
                                \ C14_Failed(ret.before_checkouts))
          /\ ret.repos_removed =
                Cardinality(C14_Tried(ret.before_db) \ C14_Failed(ret.before_db))
          /\ ret.freed =
                SumSizes(ret.before_checkouts,
                         C14_Tried(ret.before_checkouts)
                             \ C14_Failed(ret.before_checkouts))
                + SumSizes(ret.before_db,
                           C14_Tried(ret.before_db) \ C14_Failed(ret.before_db))

\* A clean_old_checkouts pass in which the removal of one aged checkout of
\* non-zero size failed after deleting part of it and another aged checkout
\* was removed.
C14_Witness ==
    /\ ret.op = "clean_old"
    /\ \E n \in C14_Failed(ret.before) :
          /\ ret.before.ents[n].size > 0
          /\ checkouts.ents[n].size < ret.before.ents[n].size
    /\ ret.removed >= 1

(***************************************************************************)
(* Claims about the classification of clone failures                       *)
(***************************************************************************)
\* The message of the failed clone mentions host resolution, the network or
\* a connection.
C15_NetworkWords ==
    \E i \in DOMAIN clone.message :
        clone.message[i] \in {"Could not resolve host", "network", "connection"}

\* C15: a clone failure becomes exactly one of three errors: a network error
\* when the message contains "Could not resolve host", "network" or
\* "connection"; otherwise repository-not-found with the URL given to fetch
\* when the status is not-found; otherwise a generic error with the message
\* unchanged.
C15_Classified ==
    clone.outcome = "err" =>
        /\ result.kind \in {"Network", "RepoNotFound", "Git"}
        /\ result.kind = "Network" <=> C15_NetworkWords
        /\ result.kind = "RepoNotFound" <=> ~C15_NetworkWords /\ clone.code = "NotFound"
        /\ result.kind = "RepoNotFound" => result.url = src.url
        /\ result.kind = "Git" => result.message = clone.message

\* A clone failed with the not-found status and a message that mentions the
\* network.
C15_Witness ==
    /\ clone.outcome = "err"
    /\ clone.code = "NotFound"
    /\ C15_NetworkWords

(***************************************************************************)
(* Claims about the snapshot of CacheStats::collect                        *)
(***************************************************************************)
\* The list names exactly the immediate subdirectories of d, each once, in
\* ascending order of name.
C16_Lists(list, d) ==
    /\ {list[i].name : i \in DOMAIN list} =
          {n \in DOMAIN d.ents : d.exists /\ d.ents[n].kind = "dir"}
    /\ \A i, j \in DOMAIN list : i < j => list[i].name < list[j].name

\* The snapshot of the last collect(), the cache unchanged since.
C16_Listing ==
    ret.op = "collect" =>
        /\ C16_Lists(ret.stats.repos, db)
        /\ C16_Lists(ret.stats.checkouts, checkouts)

\* A collect() that follows a collect() returns the same lists.
C16_Repeated ==
    (ret.op = "collect" /\ ret'.op = "collect") =>
        /\ ret'.stats.repos = ret.stats.repos
        /\ ret'.stats.checkouts = ret.stats.checkouts

\* C16 as stated: after any creations and evictions, collect() lists exactly
\* the immediate subdirectories of db/ and of checkouts/, without the
\* non-directory entries, each list in ascending order of name; and a second
\* collect() with no change to the cache in between returns the same lists
\* in the same order.
C16_Snapshot == []C16_Listing /\ [][C16_Repeated]_vars

\* The list names exactly the immediate subdirectories of d when d can be
\* enumerated, and nothing when it cannot, in ascending order of name.
C16_Enumerated(list, d) ==
    /\ {list[i].name : i \in DOMAIN list} =
          {n \in DOMAIN d.ents : d.exists /\ d.listable /\ d.ents[n].kind = "dir"}
    /\ \A i, j \in DOMAIN list : i < j => list[i].name < list[j].name

C16_EnumeratedListing ==
    ret.op = "collect" =>
        /\ C16_Enumerated(ret.stats.repos, db)
        /\ C16_Enumerated(ret.stats.checkouts, checkouts)

\* C16 amended: after any creations and evictions, collect() lists exactly
\* the immediate subdirectories of each of db/ and checkouts/ that can be
\* enumerated, and lists nothing for one that cannot, without the
\* non-directory entries, each list in ascending order of name; and a second
\* collect() with no change to the cache in between returns the same lists
\* in the same order.
C16_Amended == []C16_EnumeratedListing /\ [][C16_Repeated]_vars

\* collect() listed two checkouts, and no mirror while db/ held one and could
\* not be enumerated.
C16_Witness ==
    /\ ret.op = "collect"
    /\ Len(ret.stats.checkouts) >= 2
    /\ ret.stats.repos = <<>>
    /\ db.exists /\ ~db.listable
    /\ \E n \in MirrorNames : db.ents[n].kind = "dir"

\* The sum of the sizes of the entries of a list.
RECURSIVE C17_Sum(_)
C17_Sum(list) ==
    IF Len(list) = 0 THEN 0
    ELSE list[Len(list)].size + C17_Sum(SubSeq(list, 1, Len(list) - 1))

\* C17: in every snapshot of collect(), db_size is the sum of the sizes of
\* the listed mirrors, checkouts_size the sum of the sizes of the listed
\* checkouts, and total_size() is db_size + checkouts_size.
C17_Sizes ==
    ret.op = "collect" =>
        /\ ret.stats.db_size = C17_Sum(ret.stats.repos)
        /\ ret.stats.checkouts_size = C17_Sum(ret.stats.checkouts)
        /\ ret.total = ret.stats.db_size + ret.stats.checkouts_size

\* A snapshot with a mirror and two checkouts, of non-zero sizes.
C17_Witness ==
    /\ ret.op = "collect"
    /\ Len(ret.stats.repos) >= 1
    /\ Len(ret.stats.checkouts) >= 2
    /\ ret.stats.db_size > 0
    /\ ret.stats.checkouts_size > 0

(***************************************************************************)
(* Claims about the attempts of one fetch                                  *)
(***************************************************************************)
\* C18: one call of fetch makes at most one clone attempt: after a failed
\* clone no further attempt is made, and fetch has returned one error, the
\* classified one, for that failure.
C18_SingleAttempt ==
    /\ attempts <= 1
    /\ clone.outcome = "err" =>
          /\ attempts = 1
          /\ pc = "done"
          /\ result.kind \in {"Network", "RepoNotFound", "Git"}

\* fetch has returned the error of a clone that failed.
C18_Witness ==
    /\ pc = "done"
    /\ clone.outcome = "err"
    /\ attempts = 1
    /\ result.kind = "Git"

(***************************************************************************)
(* Claims about Validator::validate                                        *)
(***************************************************************************)
\* The settings in the order their rules are registered.
C19_Order ==
    <<"name_format", "name_length", "name_directory", "description_required",
      "description_length", "compatibility_length", "references_exist",
      "body_length", "script_executable", "script_shebang">>

C19_Position(name) == CHOOSE i \in DOMAIN C19_Order : C19_Order[i] = name

\* A rule is enabled when its switch is on or its threshold is not disabled.
C19_Enabled(name) ==
    IF name \in {"name_length", "description_length", "compatibility_length",
                 "body_length"}
    THEN lint.config[name].kind # "Disabled"
    ELSE lint.config[name]

\* The diagnostics the enabled rules return for the manifest.
C19_Returned ==
    {[rule |-> p[1], code |-> CodeOf[p[1]], nth |-> p[2]] :
        p \in {q \in (DOMAIN lint.manifest) \X (1..MaxFindings) :
                  C19_Enabled(q[1]) /\ q[2] <= lint.manifest[q[1]]}}

\* The list holds exactly the diagnostics in S, each once, those of an
\* earlier rule first and those of one rule in the order returned.
C19_Holds(list, S) ==
    /\ {list[i] : i \in DOMAIN list} = S
    /\ Len(list) = Cardinality(S)
    /\ \A i, j \in DOMAIN list :
          i < j =>
              \/ C19_Position(list[i].rule) < C19_Position(list[j].rule)
              \/ list[i].rule = list[j].rule /\ list[i].nth < list[j].nth

\* C19: validate runs every enabled rule in registration order and puts each
\* diagnostic returned in exactly one list, by its code alone: E001..E009 in
\* errors, W001..W004 in warnings, none dropped and none twice; is_ok() holds
\* exactly when no diagnostic with an error code was returned.
C19_Routed ==
    (validation.done /\ validation.merges = 0) =>
        /\ C19_Holds(validation.result.errors,
                     {d \in C19_Returned :
                         d.code \in {"E001", "E002", "E003", "E004", "E005", "E006",
                                     "E007", "E008", "E009"}})
        /\ C19_Holds(validation.result.warnings,
                     {d \in C19_Returned : d.code \in {"W001", "W002", "W003", "W004"}})
        /\ validation.ok <=>
              ~\E d \in C19_Returned :
                  d.code \in {"E001", "E002", "E003", "E004", "E005", "E006",
                              "E007", "E008", "E009"}

\* validate returned an error of the references rule, with a rule that
\* would have reported switched off.
C19_Witness ==
    /\ validation.done
    /\ validation.merges = 0
    /\ \E i \in DOMAIN validation.result.errors :
          validation.result.errors[i].code = "E009"
    /\ \E f \in DOMAIN lint.manifest : ~C19_Enabled(f) /\ lint.manifest[f] > 0
    /\ ~validation.ok

(***************************************************************************)
(* Claims about the uniqueness of entry names                              *)
(***************************************************************************)
\* The 7-character prefix of a revision.
C20_Prefix(rev) == SubSeq(rev, 1, Min(7, Len(rev)))

\* C20: entry names identify their repository: no other (owner, repo) pair
\* has the mirror name returned, no (owner, repo, 7-character revision
\* prefix) triple other than the one asked for has the checkout name
\* returned, and no checkout of another repository has the mirror name
\* returned.
C20_UniqueNames ==
    /\ nout.op = "db_name" =>
          /\ \A o \in Idents, r \in Idents :
                db_name(o, r) = nout.name => o = nreq.owner /\ r = nreq.repo
          /\ \A o \in Idents, r \in Idents, v \in Revs :
                (/\ ~checkout_name(o, r, v).panic
                 /\ checkout_name(o, r, v).name = nout.name)
                => o = nreq.owner /\ r = nreq.repo
    /\ (nout.op = "checkout_name" /\ ~nout.panic) =>
          \A o \in Idents, r \in Idents, v \in Revs :
              (/\ ~checkout_name(o, r, v).panic
               /\ checkout_name(o, r, v).name = nout.name)
              => /\ o = nreq.owner
                 /\ r = nreq.repo
                 /\ C20_Prefix(v) = C20_Prefix(nreq.rev)

====
